---- MODULE Spec2Model ----
(***************************************************************************)
(* Model of pancat's combinatorial cores:                                  *)
(*                                                                         *)
(*   - the path-level co-traversal of two segmentations of one path        *)
(*     (src/pancat/edit_distance.py, path_level_edition and                *)
(*     edit_single_path_path_level, which hold the same loop);             *)
(*   - the bubble caller (src/pancat/find_bubbles.py, bubble_caller) and   *)
(*     its two callers, call_variants and linearize_bubbles;               *)
(*   - perform_edition (src/pancat/edit_distance.py): the validation of    *)
(*     the selection, the sequential and the multiprocessing editions, at  *)
(*     path level and at graph level.                                      *)
(*                                                                         *)
(* Specification Spec runs the co-traversal on a pair of graphs and then   *)
(* on the same pair with the two graphs swapped.  Specification            *)
(* SpecBubbles runs bubble_caller on a graph, then one of its callers.     *)
(* Specification SpecPerform calls perform_edition with cores = 1 and then *)
(* again, with the same arguments, with cores > 1; at graph level the two  *)
(* calls are then repeated with the two graphs in the other order.         *)
(***************************************************************************)
EXTENDS Integers, Sequences, FiniteSets

(***************************************************************************)
(* Bounds of the model.                                                    *)
(***************************************************************************)
\* Largest number of segments a path of an enumerated graph traverses.
MaxSegs == 3

\* Largest length, in base pairs, of a segment of an enumerated graph.
MaxSegLen == 2

\* Largest node name of an enumerated graph handed to bubble_caller.
MaxNode == 4

\* Largest number of steps, all paths together, of such a graph.
MaxSteps == 5

VARIABLES
    gfa_A,              \* the path's segment lengths in the first file, in traversal order
    gfa_B,              \* the path's segment lengths in the second file, in traversal order
    swapped,            \* FALSE: perform_edition(gfa_A, gfa_B); TRUE: perform_edition(gfa_B, gfa_A)
    i,                  \* counter of segmentations on graph_A
    j,                  \* counter of segmentations on graph_B
    pos_A,              \* absolute position in BP on A
    pos_B,              \* absolute position in BP on B
    global_pos,         \* position across both genomes
    merges,             \* set for merges
    splits,             \* set for splits
    pc,                 \* "loop" | "returned" | "raised"
    edition_results     \* the dictionaries returned so far, one per call

editVars == <<gfa_A, gfa_B, swapped, i, j, pos_A, pos_B, global_pos,
              merges, splits, pc, edition_results>>

VARIABLES
    paths,              \* gfa_graph.paths: path name -> list of <<node, orientation>>
    bubbles_endpoints,  \* the anchors, a list of node names
    convergence,        \* the number of anchors the current iteration started with
    bubbles,            \* the chains of the current iteration, one dictionary per anchor pair
    path_cursor,        \* the path the for loop of the current iteration is at
    oriented_bubbles,   \* the list bubble_caller returns
    bpc,                \* "idle" | "while" | "for" | "returned" | "yielded" | "raised" | "saved"
    iterations,         \* how many times the body of the while loop was entered
    variants,           \* what call_variants yields, one dictionary per bubble
    output_graph        \* the graph linearize_bubbles saves

bubbleVars == <<paths, bubbles_endpoints, convergence, bubbles, path_cursor,
                oriented_bubbles, bpc, iterations, variants, output_graph>>

VARIABLES
    pangenome_A,        \* graph_A.paths of perform_edition: path name -> list of node names
    pangenome_B,        \* graph_B.paths of perform_edition
    graph_level,        \* argument graph_level
    selection,          \* argument selection: the default (True) or an explicit list of names
    cores,              \* argument cores
    exchanged,          \* whether the two graphs are passed in the other order
    ppc,                \* "idle" | "start" | "loop" | "workers" | "dump" | "done"
    todo,               \* the paths the sequential for loop has not reached yet
    computed,           \* the paths whose co-traversal has run in the current call
    results,            \* results of perform_edition
    paths_of_graph,     \* the list the workers are submitted from
    futures,            \* one future per submitted worker
    completed,          \* the futures, in the order the workers completed
    outputs             \* one entry per call: the error raised, the file written

performVars == <<pangenome_A, pangenome_B, graph_level, selection, cores, exchanged, ppc,
                 todo, computed, results, paths_of_graph, futures, completed,
                 outputs>>

vars == <<editVars, bubbleVars, performVars>>

(***************************************************************************)
(* Helpers on sets and sequences of numbers.                               *)
(***************************************************************************)
\* Python's min() of two numbers.
Min2(a, b) == IF a <= b THEN a ELSE b

SetMin(S) == CHOOSE x \in S : \A y \in S : x <= y

SetMax(S) == CHOOSE x \in S : \A y \in S : y <= x

\* A mis-sort: descending instead of ascending.
RECURSIVE sorted_Descending(_)
sorted_Descending(S) ==
    IF S = {} THEN <<>>
    ELSE <<SetMax(S)>> \o sorted_Descending(S \ {SetMax(S)})

\* sorted(list(S)) for a set S of numbers: its members in ascending order.
RECURSIVE sorted(_)
sorted(S) ==
    IF S = {} THEN <<>>
    ELSE <<SetMin(S)>> \o sorted(S \ {SetMin(S)})

(***************************************************************************)
(* The graphs of one call.  A graph is reduced to the path under           *)
(* comparison: the k-th entry of the sequence is                           *)
(* graph.segments[graph.paths[path_name]['path'][k][0]]['length'].         *)
(***************************************************************************)
graph_A == IF swapped THEN gfa_B ELSE gfa_A

graph_B == IF swapped THEN gfa_A ELSE gfa_B

\* Length of the segment under a 0-based cursor.
SegmentLength(graph, cursor) == graph[cursor + 1]

(***************************************************************************)
(* The inputs.                                                             *)
(***************************************************************************)
Segmentations == UNION {[1..n -> 0..MaxSegLen] : n \in 1..MaxSegs}

\* The two worked examples of the specification: ([4,6],[4,3,3]) and ([5,5],[3,7]).
ScenarioPairs == {<< <<4, 6>>, <<4, 3, 3>> >>, << <<5, 5>>, <<3, 7>> >>}

InputPairs == (Segmentations \X Segmentations) \cup ScenarioPairs

(***************************************************************************)
(* The body of the co-traversal loop.                                      *)
(***************************************************************************)
\* A slip: the offset already walked inside each segment is forgotten.
NextBreakpoint_NoOffset(gp, pA, pB, lenA, lenB) ==
    Min2(gp + lenA, gp + lenB)

\* "We compute the next closest breakpoint".
NextBreakpoint(gp, pA, pB, lenA, lenB) ==
    Min2(gp + (lenA - (gp - pA)), gp + (lenB - (gp - pB)))

\* One component of the matched tuple: the breakpoint closes the segment
\* that starts at pos and has length len.
AtEnd(gp, pos, len) == gp - pos = len

\* A slip: coinciding boundaries are recorded as a split.
CaseBoth_RecordsSplit(gp, lenA, lenB) ==
    /\ pos_A' = pos_A + lenA
    /\ pos_B' = pos_B + lenB
    /\ i' = i + 1
    /\ j' = j + 1
    /\ splits' = splits \cup {gp}
    /\ UNCHANGED <<merges, pc>>

\* A slip: the cursor of B is not advanced on coinciding boundaries.
CaseBoth_KeepsJ(gp, lenA, lenB) ==
    /\ pos_A' = pos_A + lenA
    /\ pos_B' = pos_B + lenB
    /\ i' = i + 1
    /\ UNCHANGED <<merges, splits, j, pc>>

\* case (True, True): iterating on both, no edition needed.
CaseBoth(gp, lenA, lenB) ==
    /\ pos_A' = pos_A + lenA
    /\ pos_B' = pos_B + lenB
    /\ i' = i + 1
    /\ j' = j + 1
    /\ UNCHANGED <<merges, splits, pc>>

\* A slip: the start of the segment of A is recorded instead of its end.
CaseSplit_RecordsStart(gp, lenA) ==
    /\ splits' = splits \cup {pos_A}
    /\ pos_A' = pos_A + lenA
    /\ i' = i + 1
    /\ UNCHANGED <<merges, pos_B, j, pc>>

\* case (True, False): iterating on top, split required.
CaseSplit(gp, lenA) ==
    /\ splits' = splits \cup {gp}
    /\ pos_A' = pos_A + lenA
    /\ i' = i + 1
    /\ UNCHANGED <<merges, pos_B, j, pc>>

\* A slip: the cursor of B advances and the merge is not recorded.
CaseMerge_NotRecorded(gp, lenB) ==
    /\ pos_B' = pos_B + lenB
    /\ j' = j + 1
    /\ UNCHANGED <<merges, splits, pos_A, i, pc>>

\* A slip: a merge advances the cursor of B but leaves pos_B behind.
CaseMerge_KeepsPosition(gp, lenB) ==
    /\ merges' = merges \cup {gp}
    /\ j' = j + 1
    /\ UNCHANGED <<splits, pos_A, pos_B, i, pc>>

\* case (False, True): iterating on bottom, merge required.
CaseMerge(gp, lenB) ==
    /\ merges' = merges \cup {gp}
    /\ pos_B' = pos_B + lenB
    /\ j' = j + 1
    /\ UNCHANGED <<splits, pos_A, i, pc>>

\* case (False, False): raise ValueError().
CaseRaise ==
    /\ pc' = "raised"
    /\ UNCHANGED <<merges, splits, pos_A, pos_B, i, j>>

\* The while condition of the co-traversal.
InLoop == i < Len(graph_A) /\ j < Len(graph_B)

\* The dictionary built once the loop is left.
EditionOfPath == [merges |-> sorted(merges), splits |-> sorted(splits)]

(***************************************************************************)
(* The co-traversal as a state machine.                                    *)
(***************************************************************************)
\* The locals of one call, as set before the while loop.
EnterCall ==
    /\ i' = 0
    /\ j' = 0
    /\ merges' = {}
    /\ splits' = {}
    /\ pos_A' = 0
    /\ pos_B' = 0
    /\ global_pos' = 0
    /\ pc' = "loop"

\* No bubble_caller runs under Spec.
BubblesIdle ==
    /\ paths = <<>>
    /\ bubbles_endpoints = <<>>
    /\ convergence = 0
    /\ bubbles = <<>>
    /\ path_cursor = 0
    /\ oriented_bubbles = <<>>
    /\ bpc = "idle"
    /\ iterations = 0
    /\ variants = <<>>
    /\ output_graph = <<>>

\* No perform_edition runs under Spec and SpecBubbles.
PerformIdle ==
    /\ pangenome_A = <<>>
    /\ pangenome_B = <<>>
    /\ graph_level = FALSE
    /\ selection = [explicit |-> FALSE, names |-> <<>>]
    /\ cores = 1
    /\ exchanged = FALSE
    /\ ppc = "idle"
    /\ todo = {}
    /\ computed = {}
    /\ results = <<>>
    /\ paths_of_graph = <<>>
    /\ futures = <<>>
    /\ completed = <<>>
    /\ outputs = <<>>

Init ==
    /\ \E pair \in InputPairs :
          /\ gfa_A = pair[1]
          /\ gfa_B = pair[2]
    /\ swapped = FALSE
    /\ i = 0
    /\ j = 0
    /\ merges = {}
    /\ splits = {}
    /\ pos_A = 0
    /\ pos_B = 0
    /\ global_pos = 0
    /\ pc = "loop"
    /\ edition_results = <<>>
    /\ BubblesIdle
    /\ PerformIdle

\* One iteration of the while loop.
Iterate ==
    /\ pc = "loop"
    /\ InLoop
    /\ LET lenA == SegmentLength(graph_A, i)
           lenB == SegmentLength(graph_B, j)
           gp   == NextBreakpoint(global_pos, pos_A, pos_B, lenA, lenB)
           endA == AtEnd(gp, pos_A, lenA)
           endB == AtEnd(gp, pos_B, lenB)
       IN  /\ global_pos' = gp
           /\ IF endA /\ endB THEN CaseBoth(gp, lenA, lenB)
              ELSE IF endA /\ ~endB THEN CaseSplit(gp, lenA)
              ELSE IF ~endA /\ endB THEN CaseMerge(gp, lenB)
              ELSE CaseRaise
    /\ UNCHANGED <<gfa_A, gfa_B, swapped, edition_results>>
    /\ UNCHANGED bubbleVars
    /\ UNCHANGED performVars

\* The loop is left: the sorted lists are stored and returned.
Return ==
    /\ pc = "loop"
    /\ ~InLoop
    /\ edition_results' = Append(edition_results, EditionOfPath)
    /\ pc' = "returned"
    /\ UNCHANGED <<gfa_A, gfa_B, swapped, i, j, pos_A, pos_B, global_pos,
                   merges, splits>>
    /\ UNCHANGED bubbleVars
    /\ UNCHANGED performVars

\* The caller runs the edition again with the two graphs swapped.
SwapCall ==
    /\ pc = "returned"
    /\ ~swapped
    /\ swapped' = TRUE
    /\ EnterCall
    /\ UNCHANGED <<gfa_A, gfa_B, edition_results>>
    /\ UNCHANGED bubbleVars
    /\ UNCHANGED performVars

Next == Iterate \/ Return \/ SwapCall

Spec == Init /\ [][Next]_vars

(***************************************************************************)
(* Vocabulary of the properties of the co-traversal.                       *)
(***************************************************************************)
\* End position of the k-th segment of a segmentation (0 for k = 0).
RECURSIVE EndOf(_, _)
EndOf(S, k) == IF k = 0 THEN 0 ELSE EndOf(S, k - 1) + S[k]

TotalLength(S) == EndOf(S, Len(S))

\* Every position where a segment ends, the end of the path included.
Boundaries(S) == {EndOf(S, k) : k \in 1..Len(S)}

\* The boundaries between two consecutive segments.
InteriorBoundaries(S) == {EndOf(S, k) : k \in 1..(Len(S) - 1)}

\* Every segment holds at least one base pair.
PositiveLengths(S) == \A k \in 1..Len(S) : S[k] >= 1

\* The two segmentations describe a sequence of the same total length.
Comparable == TotalLength(gfa_A) = TotalLength(gfa_B)

ToSet(seq) == {seq[k] : k \in 1..Len(seq)}

StrictlyIncreasing(seq) == \A k \in 1..(Len(seq) - 1) : seq[k] < seq[k + 1]

\* The call on (gfa_A, gfa_B) has returned.
ReturnedAB == Len(edition_results) >= 1

\* The call on (gfa_A, gfa_B) and the call on (gfa_B, gfa_A) have both returned.
ReturnedBoth == Len(edition_results) = 2

EditionAB == edition_results[1]

EditionBA == edition_results[2]

NoEdition == [merges |-> <<>>, splits |-> <<>>]

(***************************************************************************)
(* C1.  Symmetry: for two segmentations of equal total length, the splits  *)
(* of (A,B) are the merges of (B,A) and the merges of (A,B) are the splits *)
(* of (B,A).                                                               *)
(***************************************************************************)
C1_Symmetry ==
    (ReturnedBoth /\ Comparable) =>
        /\ EditionAB.splits = EditionBA.merges
        /\ EditionAB.merges = EditionBA.splits

\* Both calls returned on comparable inputs, with a split and a merge each.
C1_Witness ==
    /\ ReturnedBoth
    /\ Comparable
    /\ EditionAB.splits # <<>>
    /\ EditionAB.merges # <<>>

(***************************************************************************)
(* C2.  Classification.  As claimed: splits(A,B) are the interior          *)
(* boundaries of B that A lacks, merges(A,B) those of A that B lacks, and  *)
(* ([5,5],[3,7]) yields splits [3] and merges [5].                         *)
(***************************************************************************)
C2_AsClaimed ==
    (ReturnedAB /\ Comparable /\ PositiveLengths(gfa_A) /\ PositiveLengths(gfa_B)) =>
        /\ ToSet(EditionAB.splits) =
               InteriorBoundaries(gfa_B) \ InteriorBoundaries(gfa_A)
        /\ ToSet(EditionAB.merges) =
               InteriorBoundaries(gfa_A) \ InteriorBoundaries(gfa_B)
        /\ (gfa_A = <<5, 5>> /\ gfa_B = <<3, 7>>) =>
               EditionAB = [splits |-> <<3>>, merges |-> <<5>>]

(***************************************************************************)
(* C2, amended.  For comparable segmentations of segments of length >= 1,  *)
(* splits(A,B) are the interior boundaries of A that B lacks (where B must *)
(* be cut to obtain A), merges(A,B) the interior boundaries of B that A    *)
(* lacks, and ([5,5],[3,7]) yields splits [5] and merges [3].              *)
(***************************************************************************)
C2_Classification ==
    (ReturnedAB /\ Comparable /\ PositiveLengths(gfa_A) /\ PositiveLengths(gfa_B)) =>
        /\ ToSet(EditionAB.splits) =
               InteriorBoundaries(gfa_A) \ InteriorBoundaries(gfa_B)
        /\ ToSet(EditionAB.merges) =
               InteriorBoundaries(gfa_B) \ InteriorBoundaries(gfa_A)
        /\ (gfa_A = <<5, 5>> /\ gfa_B = <<3, 7>>) =>
               EditionAB = [splits |-> <<5>>, merges |-> <<3>>]

\* The call on ([5,5],[3,7]) has returned.
C2_Witness ==
    /\ ReturnedAB
    /\ gfa_A = <<5, 5>>
    /\ gfa_B = <<3, 7>>

(***************************************************************************)
(* C3.  Refinement.  As claimed: when the boundaries of B strictly include *)
(* those of A, (A,B) returns no merge and the splits are the boundaries of *)
(* B that A lacks.                                                         *)
(***************************************************************************)
Refines ==
    /\ Comparable
    /\ PositiveLengths(gfa_A)
    /\ PositiveLengths(gfa_B)
    /\ Boundaries(gfa_A) \subseteq Boundaries(gfa_B)
    /\ Boundaries(gfa_A) # Boundaries(gfa_B)

C3_AsClaimed ==
    (ReturnedAB /\ Refines) =>
        /\ EditionAB.merges = <<>>
        /\ ToSet(EditionAB.splits) = Boundaries(gfa_B) \ Boundaries(gfa_A)

(***************************************************************************)
(* C3, amended.  When the boundaries of B strictly include those of A,     *)
(* (A,B) returns no split and the merges are exactly the boundaries of B   *)
(* that A lacks.                                                           *)
(***************************************************************************)
C3_Refinement ==
    (ReturnedAB /\ Refines) =>
        /\ EditionAB.splits = <<>>
        /\ ToSet(EditionAB.merges) = Boundaries(gfa_B) \ Boundaries(gfa_A)

\* The call returned on a B that keeps a cut of A and adds one of its own.
C3_Witness ==
    /\ ReturnedAB
    /\ Refines
    /\ Len(gfa_A) >= 2
    /\ EditionAB.merges # <<>>

(***************************************************************************)
(* C4.  Scenario 1.  As claimed: ([4,6],[4,3,3]) returns splits [4] and    *)
(* no merge, and ([4,3,3],[4,6]) returns no split and merges [4].          *)
(***************************************************************************)
Scenario1 == gfa_A = <<4, 6>> /\ gfa_B = <<4, 3, 3>>

C4_AsClaimed ==
    (ReturnedBoth /\ Scenario1) =>
        /\ EditionAB = [splits |-> <<4>>, merges |-> <<>>]
        /\ EditionBA = [splits |-> <<>>, merges |-> <<4>>]

(***************************************************************************)
(* C4, amended.  ([4,6],[4,3,3]) returns no split and merges [7], and      *)
(* ([4,3,3],[4,6]) returns splits [7] and no merge.                        *)
(***************************************************************************)
C4_Scenario1 ==
    (ReturnedBoth /\ Scenario1) =>
        /\ EditionAB = [splits |-> <<>>, merges |-> <<7>>]
        /\ EditionBA = [splits |-> <<7>>, merges |-> <<>>]

\* Both calls of scenario 1 have returned.
C4_Witness == ReturnedBoth /\ Scenario1

(***************************************************************************)
(* C5.  Mismatch detection, as claimed: when the two segmentations have    *)
(* different total lengths, the co-traversal fails and returns no result.  *)
(***************************************************************************)
C5_MismatchDetected ==
    (TotalLength(graph_A) # TotalLength(graph_B)) => pc # "returned"

(***************************************************************************)
(* C6.  Identity: a segmentation compared with itself yields no split and  *)
(* no merge.                                                               *)
(***************************************************************************)
C6_Identity ==
    (ReturnedAB /\ gfa_A = gfa_B) => EditionAB = NoEdition

\* The call returned on two equal segmentations of several segments.
C6_Witness ==
    /\ ReturnedAB
    /\ gfa_A = gfa_B
    /\ Len(gfa_A) >= 2
    /\ PositiveLengths(gfa_A)

(***************************************************************************)
(* C7.  Breakpoint monotonicity: every returned splits list and merges     *)
(* list is strictly increasing.                                            *)
(***************************************************************************)
C7_Monotonic ==
    \A r \in 1..Len(edition_results) :
        /\ StrictlyIncreasing(edition_results[r].splits)
        /\ StrictlyIncreasing(edition_results[r].merges)

\* A call returned at least two splits and two merges.
C7_Witness ==
    \E r \in 1..Len(edition_results) :
        /\ Len(edition_results[r].splits) >= 2
        /\ Len(edition_results[r].merges) >= 2

(***************************************************************************)
(* bubble_caller: helpers.  Node names are numerals (the anchors are       *)
(* sorted with key=int) and are modelled by their integer value.           *)
(***************************************************************************)
\* Python's seq[start:end] for 0 <= start and 0 <= end.
PySlice(seq, start, end) ==
    LET stop == Min2(end, Len(seq))
    IN  IF start >= stop THEN <<>>
        ELSE [k \in 1..(stop - start) |-> seq[start + k]]

\* Python's seq[1:-1].
PyInner(seq) ==
    IF Len(seq) < 2 THEN <<>> ELSE PySlice(seq, 1, Len(seq) - 1)

\* Python's seq.index(x), 0-based: the first occurrence.
PyIndex(seq, x) ==
    (CHOOSE k \in 1..Len(seq) :
        /\ seq[k] = x
        /\ \A h \in 1..(k - 1) : seq[h] # x) - 1

\* Number of values of range(0, stop, step).
RangeCount(stop, step) ==
    IF stop <= 0 THEN 0 ELSE ((stop - 1) \div step) + 1

\* grouper(iterable, n, m): overlapping chunks of n elements, n - m apart.
grouper(iterable, n, m) ==
    [q \in 1..RangeCount(Len(iterable) - 1, n - m) |->
        PySlice(iterable, (q - 1) * (n - m), (q - 1) * (n - m) + n)]

\* The names of the paths, in the order of gfa_graph.paths.
PathNames == DOMAIN paths

\* all_sets[path_name]: the node names of the path, in order.
all_sets(path_name) ==
    [k \in 1..Len(paths[path_name]) |-> paths[path_name][k][1]]

\* all_maps[path_name]: the path itself, (node, orientation) pairs.
all_maps(path_name) == paths[path_name]

\* common_members(list of sets), then sorted(..., key=int).
common_members(graph) ==
    sorted({node \in UNION {{graph[p][k][1] : k \in 1..Len(graph[p])} : p \in DOMAIN graph} :
               \A p \in DOMAIN graph : \E k \in 1..Len(graph[p]) : graph[p][k][1] = node})

\* The position of every anchor in the path, grouped two by two.
endpoints_indexes(path_name, endpoints) ==
    grouper([e \in 1..Len(endpoints) |-> PyIndex(all_sets(path_name), endpoints[e])],
            2, 1)

\* d[key] = value on a dictionary.
DictPut(d, key, value) ==
    [x \in (DOMAIN d) \cup {key} |-> IF x = key THEN value ELSE d[x]]

\* The chains of one path written into the bubbles of the iteration.
WithChains(bubs, path_name, endpoints) ==
    LET idx == endpoints_indexes(path_name, endpoints)
    IN  [b \in 1..Len(bubs) |->
            IF b <= Len(idx)
            THEN DictPut(bubs[b], path_name,
                         PySlice(all_sets(path_name), idx[b][1], idx[b][2]))
            ELSE bubs[b]]

\* embed_nodes: every node strictly inside a chain of the iteration.
embed_nodes(bubs) ==
    UNION {UNION {ToSet(PyInner(bubs[b][p])) : p \in DOMAIN bubs[b]} : b \in 1..Len(bubs)}

\* The anchors that are not embedded, in order.
RECURSIVE FilterOut(_, _)
FilterOut(endpoints, embedded) ==
    IF endpoints = <<>> THEN <<>>
    ELSE IF Head(endpoints) \in embedded
         THEN FilterOut(Tail(endpoints), embedded)
         ELSE <<Head(endpoints)>> \o FilterOut(Tail(endpoints), embedded)

\* A slip: the closing anchor is left out, as in the chains of the fixed point.
ExtractOriented_EndExcluded(endpoints) ==
    [b \in 1..(Len(endpoints) - 1) |->
        [p \in PathNames |->
            LET idx == endpoints_indexes(p, endpoints)
            IN  PySlice(all_maps(p), idx[b][1], idx[b][2])]]

\* "Extracting reading way": the returned list.
ExtractOriented(endpoints) ==
    [b \in 1..(Len(endpoints) - 1) |->
        [p \in PathNames |->
            LET idx == endpoints_indexes(p, endpoints)
            IN  PySlice(all_maps(p), idx[b][1], idx[b][2] + 1)]]

(***************************************************************************)
(* The callers of bubble_caller.  The sequence of a segment is written as  *)
(* a word of signed letters: segment n holds the one-letter word <<n>>,    *)
(* and the complement of a letter is its opposite.                         *)
(***************************************************************************)
\* gfa_graph.segments[node]['seq'].
SegmentSequence(node) == <<node>>

\* revcomp: the complemented letters, in reverse order.
revcomp(word) == [k \in 1..Len(word) |-> 0 - word[Len(word) + 1 - k]]

\* The sequence a step of a path reads.
ReadSequence(step) ==
    IF step[2] = "+" THEN SegmentSequence(step[1])
    ELSE revcomp(SegmentSequence(step[1]))

\* ''.join([... for node, orientation in path_chain]).
RECURSIVE JoinSequences(_)
JoinSequences(path_chain) ==
    IF path_chain = <<>> THEN <<>>
    ELSE ReadSequence(Head(path_chain)) \o JoinSequences(Tail(path_chain))

\* any([not len(x) for bubble in bubbles for x in bubble.values()]).
ZeroSizedBubble(bubs) ==
    \E b \in 1..Len(bubs) : \E p \in DOMAIN bubs[b] : Len(bubs[b][p]) = 0

\* output_graph.add_node for the source or the sink of a chain.
AddEndpoint(graph, step) ==
    IF step[1] \in graph.contained_nodes THEN graph
    ELSE [graph EXCEPT !.nodes = DictPut(@, step[1], ReadSequence(step)),
                       !.contained_nodes = @ \cup {step[1]}]

\* path_builder[path_name] extended with the steps of one chain.
ExtendPath(built, source, steps) ==
    IF Len(built) = 0 THEN <<source>> \o steps ELSE built \o steps

\* The body of the two for loops of linearize_bubbles, for one chain.
LinearizeChain(graph, path_name, path_chain) ==
    LET source  == path_chain[1]
        chained == PySlice(path_chain, 1, Len(path_chain) - 1)
        sink    == path_chain[Len(path_chain)]
        ends    == AddEndpoint(AddEndpoint(graph, source), sink)
    IN  IF Len(chained) > 0
        THEN LET target == chained[1][1]
             IN  [ends EXCEPT
                    !.nodes = DictPut(@, target, JoinSequences(chained)),
                    !.edges = @ \o << <<source[1], source[2], target, "+">>,
                                      <<target, "+", sink[1], sink[2]>> >>,
                    !.paths[path_name] =
                        ExtendPath(@, source, << <<target, "+">>, sink >>)]
        ELSE [ends EXCEPT
                !.edges = Append(@, <<source[1], source[2], sink[1], sink[2]>>),
                !.paths[path_name] = ExtendPath(@, source, <<sink>>)]

\* The graph after the first k chains, bubble after bubble and, in a bubble,
\* path after path.
RECURSIVE LinearizeUpTo(_, _)
LinearizeUpTo(bubs, k) ==
    IF k = 0
    THEN [nodes |-> <<>>, edges |-> <<>>, contained_nodes |-> {},
          paths |-> [p \in PathNames |-> <<>>]]
    ELSE LET b == ((k - 1) \div Len(paths)) + 1
             p == ((k - 1) % Len(paths)) + 1
         IN  LinearizeChain(LinearizeUpTo(bubs, k - 1), p, bubs[b][p])

\* What output_graph.save_graph writes: the nodes, the edges and the paths.
SavedGraph(bubs) ==
    LET graph == LinearizeUpTo(bubs, Len(bubs) * Len(paths))
    IN  [nodes |-> graph.nodes, edges |-> graph.edges, paths |-> graph.paths]

(***************************************************************************)
(* bubble_caller: the graphs it is run on.                                 *)
(***************************************************************************)
\* Orientation of the k-th step of a path of an enumerated graph: the first
\* path reads every node forward, the others read every second node reversed.
Strand(path_name, k) ==
    IF path_name > 1 /\ k % 2 = 0 THEN "-" ELSE "+"

\* The path that visits the given nodes.
AsPath(path_name, nodes) ==
    [k \in 1..Len(nodes) |-> <<nodes[k], Strand(path_name, k)>>]

NodeLists(n) == [1..n -> 1..MaxNode]

\* A graph of one path of at most MaxSteps steps.
IsOnePathGraph(graph) ==
    \E n \in 1..MaxSteps : \E a \in NodeLists(n) :
        graph = <<AsPath(1, a)>>

\* A graph of two paths of at most MaxSteps steps together.
IsTwoPathGraph(graph) ==
    \E n1 \in 1..(MaxSteps - 1) : \E n2 \in 1..(MaxSteps - n1) :
        \E a \in NodeLists(n1) : \E b \in NodeLists(n2) :
            graph = <<AsPath(1, a), AsPath(2, b)>>

\* A graph of two paths that visit the same nodes 1..n once each, each path
\* in an order of its own (a rearrangement).
Orderings(n) ==
    {f \in [1..n -> 1..n] : \A h, k \in 1..n : h # k => f[h] # f[k]}

IsRearrangedGraph(graph) ==
    \E n \in 1..MaxNode : \E a \in Orderings(n) : \E b \in Orderings(n) :
        graph = <<AsPath(1, a), AsPath(2, b)>>

\* Scenario 3: three paths through 1, 5 and 9, each with a segment of its
\* own between 1 and 5, and the same segments between 5 and 9.
Forward(nodes) == [k \in 1..Len(nodes) |-> <<nodes[k], "+">>]

Scenario3Graph(own, shared) ==
    [p \in 1..3 |-> Forward(<<1, own[p], 5>> \o shared \o <<9>>)]

Scenario3Own == {own \in [1..3 -> {2, 3, 4}] : \A p, q \in 1..3 : p # q => own[p] # own[q]}

Scenario3Shared == {sorted(S) : S \in SUBSET {6, 7, 8}}

IsScenario3Graph(graph) ==
    \E own \in Scenario3Own : \E shared \in Scenario3Shared :
        graph = Scenario3Graph(own, shared)

(***************************************************************************)
(* bubble_caller as a state machine.                                       *)
(***************************************************************************)
\* No edition runs under SpecBubbles.
EditionIdle ==
    /\ gfa_A = <<>>
    /\ gfa_B = <<>>
    /\ swapped = FALSE
    /\ i = 0
    /\ j = 0
    /\ merges = {}
    /\ splits = {}
    /\ pos_A = 0
    /\ pos_B = 0
    /\ global_pos = 0
    /\ pc = "idle"
    /\ edition_results = <<>>

InitBubbles ==
    /\ \/ IsOnePathGraph(paths)
       \/ IsTwoPathGraph(paths)
       \/ IsRearrangedGraph(paths)
       \/ IsScenario3Graph(paths)
    /\ bubbles_endpoints = common_members(paths)
    /\ convergence = 0
    /\ bubbles = <<>>
    /\ path_cursor = 0
    /\ oriented_bubbles = <<>>
    /\ bpc = "while"
    /\ iterations = 0
    /\ variants = <<>>
    /\ output_graph = <<>>
    /\ EditionIdle
    /\ PerformIdle

\* A slip: the anchor count of the iteration is not remembered.
BeginIteration_CountForgotten ==
    /\ bpc = "while"
    /\ Len(bubbles_endpoints) # convergence
    /\ convergence' = convergence
    /\ bubbles' = [b \in 1..(Len(bubbles_endpoints) - 1) |-> <<>>]
    /\ path_cursor' = 1
    /\ bpc' = "for"
    /\ iterations' = iterations + 1
    /\ UNCHANGED <<paths, bubbles_endpoints, oriented_bubbles, variants, output_graph>>
    /\ UNCHANGED editVars
    /\ UNCHANGED performVars

\* The while test succeeds: a new iteration starts with empty bubbles.
BeginIteration ==
    /\ bpc = "while"
    /\ Len(bubbles_endpoints) # convergence
    /\ convergence' = Len(bubbles_endpoints)
    /\ bubbles' = [b \in 1..(Len(bubbles_endpoints) - 1) |-> <<>>]
    /\ path_cursor' = 1
    /\ bpc' = "for"
    /\ iterations' = iterations + 1
    /\ UNCHANGED <<paths, bubbles_endpoints, oriented_bubbles, variants, output_graph>>
    /\ UNCHANGED editVars
    /\ UNCHANGED performVars

\* The body of the for loop, for the path under the cursor: its chains are
\* written, the embedded nodes are collected and the anchors are filtered.
ProcessPath ==
    /\ bpc = "for"
    /\ LET filled == WithChains(bubbles, path_cursor, bubbles_endpoints)
       IN  /\ bubbles' = filled
           /\ bubbles_endpoints' = FilterOut(bubbles_endpoints, embed_nodes(filled))
    /\ path_cursor' = path_cursor + 1
    /\ bpc' = IF path_cursor = Len(paths) THEN "while" ELSE "for"
    /\ UNCHANGED <<paths, convergence, oriented_bubbles, iterations, variants,
                   output_graph>>
    /\ UNCHANGED editVars
    /\ UNCHANGED performVars

\* The while test fails: the oriented bubbles are extracted and returned.
FinalExtraction ==
    /\ bpc = "while"
    /\ Len(bubbles_endpoints) = convergence
    /\ oriented_bubbles' = ExtractOriented(bubbles_endpoints)
    /\ bpc' = "returned"
    /\ UNCHANGED <<paths, bubbles_endpoints, convergence, bubbles, path_cursor,
                   iterations, variants, output_graph>>
    /\ UNCHANGED editVars
    /\ UNCHANGED performVars

\* call_variants: bubble_caller has returned, and every bubble is turned into
\* the sequences its chains spell.
CallVariants ==
    /\ bpc = "returned"
    /\ variants' = [b \in 1..Len(oriented_bubbles) |->
                       [p \in DOMAIN oriented_bubbles[b] |->
                           JoinSequences(oriented_bubbles[b][p])]]
    /\ bpc' = "yielded"
    /\ UNCHANGED <<paths, bubbles_endpoints, convergence, bubbles, path_cursor,
                   oriented_bubbles, iterations, output_graph>>
    /\ UNCHANGED editVars
    /\ UNCHANGED performVars

\* linearize_bubbles: bubble_caller has returned; a zero-sized chain raises
\* ValueError, otherwise the flattened graph is built and saved.
LinearizeBubbles ==
    /\ bpc = "returned"
    /\ IF ZeroSizedBubble(oriented_bubbles)
       THEN /\ bpc' = "raised"
            /\ UNCHANGED output_graph
       ELSE /\ bpc' = "saved"
            /\ output_graph' = SavedGraph(oriented_bubbles)
    /\ UNCHANGED <<paths, bubbles_endpoints, convergence, bubbles, path_cursor,
                   oriented_bubbles, iterations, variants>>
    /\ UNCHANGED editVars
    /\ UNCHANGED performVars

NextBubbles ==
    \/ BeginIteration
    \/ ProcessPath
    \/ FinalExtraction
    \/ CallVariants
    \/ LinearizeBubbles

SpecBubbles == InitBubbles /\ [][NextBubbles]_vars

(***************************************************************************)
(* Vocabulary of the properties of bubble_caller.                          *)
(***************************************************************************)
BubblesReturned == bpc = "returned"

\* A chain without its first element.
DropFirst(chain) == PySlice(chain, 1, Len(chain))

\* The chains of one path, bubble after bubble, the anchor that two
\* consecutive bubbles share being kept once.
RECURSIVE ConcatChains(_, _, _)
ConcatChains(bubs, path_name, upto) ==
    IF upto = 0 THEN <<>>
    ELSE IF upto = 1 THEN bubs[1][path_name]
    ELSE ConcatChains(bubs, path_name, upto - 1) \o DropFirst(bubs[upto][path_name])

\* The positions (0-based) of the path that the chain of a bubble covers: the
\* chain starts at the first occurrence of the opening anchor of the bubble.
Covered(path_name, b) ==
    LET start == PyIndex(all_sets(path_name), bubbles_endpoints[b])
    IN  {start + k : k \in 0..(Len(oriented_bubbles[b][path_name]) - 1)}

\* The bubble opens on anchor a and closes on anchor z, on every path.
BoundedBy(bubble, a, z) ==
    \A p \in DOMAIN bubble :
        /\ bubble[p] # <<>>
        /\ bubble[p][1][1] = a
        /\ bubble[p][Len(bubble[p])][1] = z

ChainsDiffer(bubble) ==
    \A p, q \in DOMAIN bubble : p # q => bubble[p] # bubble[q]

ChainsIdentical(bubble) ==
    \A p, q \in DOMAIN bubble : bubble[p] = bubble[q]

(***************************************************************************)
(* C8.  Bubble coverage, as claimed: for every path, the chains of the     *)
(* returned bubbles, concatenated in bubble order with each shared anchor  *)
(* counted once, are exactly the path.  Stated for the graphs on which at  *)
(* least one bubble is returned.                                           *)
(***************************************************************************)
C8_Coverage ==
    (BubblesReturned /\ oriented_bubbles # <<>>) =>
        \A p \in PathNames :
            ConcatChains(oriented_bubbles, p, Len(oriented_bubbles)) = paths[p]

(***************************************************************************)
(* C9.  Scenario 3, as claimed: three paths through the anchors 1, 5, 9,   *)
(* diverging between 1 and 5 and sharing their segments between 5 and 9,   *)
(* yield exactly two bubbles, bounded by (1,5) and (5,9); the chains of    *)
(* the first differ, those of the second are identical.                    *)
(***************************************************************************)
C9_AsClaimed ==
    (BubblesReturned /\ IsScenario3Graph(paths)) =>
        /\ Len(oriented_bubbles) = 2
        /\ BoundedBy(oriented_bubbles[1], 1, 5)
        /\ BoundedBy(oriented_bubbles[2], 5, 9)
        /\ ChainsDiffer(oriented_bubbles[1])
        /\ ChainsIdentical(oriented_bubbles[2])

(***************************************************************************)
(* C9, amended.  Every segment the three paths share between 5 and 9 is    *)
(* an anchor too: with n such segments (numbered in path order) the        *)
(* result holds 2 + n bubbles, one per consecutive pair of                 *)
(* 1, 5, the shared segments, 9; the chains of the first differ, those of  *)
(* every other are identical.  It holds exactly the two bubbles (1,5) and  *)
(* (5,9) when 9 directly follows 5 on every path.                          *)
(***************************************************************************)
C9_Scenario3 ==
    \A own \in Scenario3Own : \A shared \in Scenario3Shared :
        (BubblesReturned /\ paths = Scenario3Graph(own, shared)) =>
            LET anchors == <<1, 5>> \o shared \o <<9>>
            IN  /\ Len(oriented_bubbles) = 2 + Len(shared)
                /\ \A b \in 1..Len(oriented_bubbles) :
                       BoundedBy(oriented_bubbles[b], anchors[b], anchors[b + 1])
                /\ ChainsDiffer(oriented_bubbles[1])
                /\ \A b \in 2..Len(oriented_bubbles) :
                       ChainsIdentical(oriented_bubbles[b])
                /\ (shared = <<>>) =>
                       /\ Len(oriented_bubbles) = 2
                       /\ BoundedBy(oriented_bubbles[1], 1, 5)
                       /\ BoundedBy(oriented_bubbles[2], 5, 9)

\* bubble_caller returned two bubbles on a graph of scenario 3.
C9_Witness ==
    /\ BubblesReturned
    /\ IsScenario3Graph(paths)
    /\ Len(oriented_bubbles) = 2

(***************************************************************************)
(* C10.  Bubble disjointness, as claimed: on every path, the chains of two *)
(* distinct returned bubbles cover no common position, except the anchor   *)
(* that two consecutive bubbles share.                                     *)
(***************************************************************************)
C10_Disjoint ==
    BubblesReturned =>
        \A p \in PathNames :
            \A b1, b2 \in 1..Len(oriented_bubbles) :
                (b1 < b2) =>
                    (Covered(p, b1) \cap Covered(p, b2)) \subseteq
                        (IF b2 = b1 + 1
                         THEN {PyIndex(all_sets(p), bubbles_endpoints[b2])}
                         ELSE {})

(***************************************************************************)
(* C11.  Bubble bounds, as claimed: bubble_caller returns one bubble per   *)
(* consecutive pair of converged anchors, and in the k-th bubble every     *)
(* path has a chain that starts with the k-th anchor and ends with the     *)
(* next one.                                                               *)
(***************************************************************************)
C11_BubbleBounds ==
    BubblesReturned =>
        /\ Len(oriented_bubbles) = Cardinality(1..(Len(bubbles_endpoints) - 1))
        /\ \A b \in 1..Len(oriented_bubbles) :
               /\ DOMAIN oriented_bubbles[b] = PathNames
               /\ BoundedBy(oriented_bubbles[b],
                            bubbles_endpoints[b], bubbles_endpoints[b + 1])

(***************************************************************************)
(* C12.  Degenerate bubbles are fatal, as claimed: when a chain of a       *)
(* bubble has no element, neither bubble_caller nor a caller of it         *)
(* completes: no list of bubbles is returned, no variant is yielded and no *)
(* graph is saved.                                                         *)
(***************************************************************************)
C12_DegenerateFatal ==
    ZeroSizedBubble(oriented_bubbles) => bpc \notin {"returned", "yielded", "saved"}

(***************************************************************************)
(* C18.  Converged anchors are true separators, as claimed: once the       *)
(* fixed-point loop has stopped, no remaining anchor lies strictly between *)
(* the first and the last element of a chain of a path.                    *)
(***************************************************************************)
C18_TrueSeparators ==
    BubblesReturned =>
        \A b \in 1..Len(oriented_bubbles) : \A p \in DOMAIN oriented_bubbles[b] :
            \A k \in 2..(Len(oriented_bubbles[b][p]) - 1) :
                oriented_bubbles[b][p][k][1] \notin ToSet(bubbles_endpoints)

(***************************************************************************)
(* C19.  Iteration barrier, as claimed: while the for loop of an iteration *)
(* still has a path to process, the anchor list is the one the iteration   *)
(* began with (anchors are only ever removed, so it is unchanged exactly   *)
(* when its length still is the length recorded at the top of the          *)
(* iteration): it is filtered only after the chains of all paths.          *)
(***************************************************************************)
C19_Barrier ==
    (bpc = "for") => Len(bubbles_endpoints) = convergence

(***************************************************************************)
(* C20.  Fixed-point termination: no step of bubble_caller makes the       *)
(* anchor list longer, and the loop terminates after at most (initial      *)
(* number of anchors + 1) iterations: the body of the while loop is        *)
(* entered at most that many times, and each for loop is at a path of the  *)
(* graph and moves to the next one (the while test then either enters the  *)
(* body again or leaves the loop).                                         *)
(***************************************************************************)
InitialAnchors == Len(common_members(paths))

C20_Termination ==
    /\ [][Len(bubbles_endpoints') <= Len(bubbles_endpoints)]_vars
    /\ [](iterations <= InitialAnchors + 1)
    /\ []((bpc = "for") => path_cursor \in 1..Len(paths))
    /\ [][(bpc = "for") => path_cursor' = path_cursor + 1]_vars

\* bubble_caller returned after an iteration that removed an anchor was
\* followed by one that removed none.
C20_Witness ==
    /\ BubblesReturned
    /\ iterations >= 2
    /\ Len(bubbles_endpoints) < InitialAnchors

(***************************************************************************)
(* perform_edition: the graphs it is run on.  A graph is its paths, each a *)
(* list of node names; every node is read forward and is named after its  *)
(* length, so that two steps of the same length, on one path or on two,    *)
(* visit the same segment.                                                 *)
(***************************************************************************)
\* Largest number of steps of a path of a graph handed to perform_edition.
MaxPathNodes == 2

\* graph.segments[node]['length'].
NodeLength(node) == node

PathSeqs == UNION {[1..n -> 1..MaxSegLen] : n \in 1..MaxPathNodes}

\* The lengths of the segments a path traverses.
SegmentLengths(path) == [k \in 1..Len(path) |-> NodeLength(path[k])]

\* Both graphs hold the single path x.
IsOneSharedPath(A, B) ==
    \E s \in PathSeqs : \E t \in PathSeqs :
        /\ A = [p \in {"x"} |-> s]
        /\ B = [p \in {"x"} |-> t]

\* Both graphs hold the paths x and y, segmented as s in one graph and as t
\* in the other, s and t of the same total length: y is cut as x is (twin)
\* or the other way round; graph A may hold a third path z that B lacks.
IsTwoSharedPaths(A, B) ==
    \E s \in PathSeqs : \E t \in PathSeqs : \E twin \in BOOLEAN : \E extra \in BOOLEAN :
        /\ TotalLength(SegmentLengths(s)) = TotalLength(SegmentLengths(t))
        /\ A = [p \in {"x", "y"} \cup (IF extra THEN {"z"} ELSE {}) |->
                   IF p = "y" /\ ~twin THEN t ELSE s]
        /\ B = [p \in {"x", "y"} |-> IF p = "y" /\ ~twin THEN s ELSE t]

\* The values of the argument selection: the default, or a list of names.
SelectionLists ==
    {<<>>, <<"x">>, <<"y">>, <<"z">>, <<"x", "y">>, <<"y", "x">>,
     <<"x", "z">>, <<"x", "x">>}

Selections ==
    {[explicit |-> FALSE, names |-> <<>>]} \cup
    {[explicit |-> TRUE, names |-> names] : names \in SelectionLists}

(***************************************************************************)
(* The Position-Offset index (Graph.sequence_offsets, of pgGraphs): for    *)
(* every node and every path through it, one (start, end, orientation)     *)
(* triple per visit, in traversal order.                                   *)
(***************************************************************************)
RECURSIVE Occurrences(_, _, _)
Occurrences(path, node, k) ==
    IF k = 0 THEN <<>>
    ELSE IF path[k] = node
         THEN Append(Occurrences(path, node, k - 1),
                     <<EndOf(SegmentLengths(path), k - 1),
                       EndOf(SegmentLengths(path), k), "+">>)
         ELSE Occurrences(path, node, k - 1)

\* graph.segments[node]['PO'] once sequence_offsets has run.
sequence_offsets(graph) ==
    [node \in UNION {ToSet(graph[p]) : p \in DOMAIN graph} |->
        [p \in {q \in DOMAIN graph : node \in ToSet(graph[q])} |->
            Occurrences(graph[p], node, Len(graph[p]))]]

(***************************************************************************)
(* The co-traversal of one path, as the workers run it: the loop of        *)
(* edit_single_path_path_level and edit_single_path_graph_level (and of    *)
(* the sequential path_level_edition and graph_level_edition).  The log    *)
(* keeps, for every split and merge, the locals the recorded value is      *)
(* computed from.                                                          *)
(***************************************************************************)
BeforeLoop ==
    [i |-> 0, j |-> 0, pos_A |-> 0, pos_B |-> 0, global_pos |-> 0,
     log |-> <<>>, raised |-> "none"]

Recorded(kind, gp, pA, node_B) ==
    [kind |-> kind, global_pos |-> gp, pos_A |-> pA, current_node_B |-> node_B]

RECURSIVE CoTraversal(_, _, _)
CoTraversal(segs_A, segs_B, s) ==
    IF ~(s.i < Len(segs_A) /\ s.j < Len(segs_B)) THEN s
    ELSE LET current_node_A == segs_A[s.i + 1]
             current_node_B == segs_B[s.j + 1]
             lenA == NodeLength(current_node_A)
             lenB == NodeLength(current_node_B)
             gp   == NextBreakpoint(s.global_pos, s.pos_A, s.pos_B, lenA, lenB)
             endA == AtEnd(gp, s.pos_A, lenA)
             endB == AtEnd(gp, s.pos_B, lenB)
         IN  IF endA /\ endB
             THEN CoTraversal(segs_A, segs_B,
                      [s EXCEPT !.global_pos = gp,
                                !.pos_A = @ + lenA, !.pos_B = @ + lenB,
                                !.i = @ + 1, !.j = @ + 1])
             ELSE IF endA /\ ~endB
             THEN CoTraversal(segs_A, segs_B,
                      [s EXCEPT !.global_pos = gp,
                                !.log = Append(@, Recorded("split", gp, s.pos_A, current_node_B)),
                                !.pos_A = @ + lenA, !.i = @ + 1])
             ELSE IF ~endA /\ endB
             THEN CoTraversal(segs_A, segs_B,
                      [s EXCEPT !.global_pos = gp,
                                !.log = Append(@, Recorded("merge", gp, s.pos_A, current_node_B)),
                                !.pos_B = @ + lenB, !.j = @ + 1])
             ELSE [s EXCEPT !.global_pos = gp, !.raised = "ValueError"]

\* The co-traversal of a path of the two graphs; a path that a graph lacks
\* raises KeyError at graph.paths[path_name].
TraversalOf(A, B, path_name) ==
    IF path_name \notin DOMAIN A \/ path_name \notin DOMAIN B
    THEN [BeforeLoop EXCEPT !.raised = "KeyError"]
    ELSE CoTraversal(A[path_name], B[path_name], BeforeLoop)

\* The positions recorded with a given kind.
RecordedAt(log, kind) ==
    {log[k].global_pos : k \in {h \in 1..Len(log) : log[h].kind = kind}}

\* edit_single_path_path_level: what the call raises, and what it returns.
edit_single_path_path_level(path_name, A, B) ==
    LET run == TraversalOf(A, B, path_name)
    IN  [raised |-> run.raised,
         value  |-> [merges |-> sorted(RecordedAt(run.log, "merge")),
                     splits |-> sorted(RecordedAt(run.log, "split"))]]

\* The event a split adds: for every path through the node of B, the starts
\* of its visits, shifted by global_pos - pos_A.
SplitEvent(offsets_B, entry) ==
    LET list_of_positions == offsets_B[entry.current_node_B]
    IN  {<<p, {list_of_positions[p][k][1] + entry.global_pos - entry.pos_A :
                  k \in 1..Len(list_of_positions[p])}>> :
            p \in DOMAIN list_of_positions}

\* The event a merge adds: for every path through the node of B, the ends of
\* its visits.
MergeEvent(offsets_B, entry) ==
    LET list_of_positions == offsets_B[entry.current_node_B]
    IN  {<<p, {list_of_positions[p][k][2] : k \in 1..Len(list_of_positions[p])}>> :
            p \in DOMAIN list_of_positions}

\* The event an entry of the log stands for.
EventOf(B, entry) ==
    IF entry.kind = "split" THEN SplitEvent(sequence_offsets(B), entry)
    ELSE MergeEvent(sequence_offsets(B), entry)

EventsOf(B, log, kind) ==
    {EventOf(B, log[k]) : k \in {h \in 1..Len(log) : log[h].kind = kind}}

\* edit_single_path_graph_level: what the call raises, and the pair it returns.
edit_single_path_graph_level(path_name, A, B) ==
    LET run == TraversalOf(A, B, path_name)
    IN  [raised |-> run.raised,
         value  |-> [merges |-> EventsOf(B, run.log, "merge"),
                     splits |-> EventsOf(B, run.log, "split")]]

(***************************************************************************)
(* perform_edition as a state machine.                                     *)
(***************************************************************************)
\* set(graph_A.paths.keys()).intersection(set(graph_B.paths.keys())).
path_intersect == (DOMAIN pangenome_A) \cap (DOMAIN pangenome_B)

\* A slip: any() instead of all().
SelectionValid_Any(names, shared) ==
    \E k \in 1..Len(names) : names[k] \in shared

\* all([x in path_intersect for x in selection]).
SelectionValid(names, shared) ==
    \A k \in 1..Len(names) : names[k] \in shared

\* The orders in which a set can be listed.
ListingsOf(S) ==
    {f \in [1..Cardinality(S) -> S] : \A h, k \in 1..Cardinality(S) : h # k => f[h] # f[k]}

\* What one worker (or one turn of the sequential loop) computes for a path.
EditionFor(path_name) ==
    IF graph_level
    THEN edit_single_path_graph_level(path_name, pangenome_A, pangenome_B)
    ELSE edit_single_path_path_level(path_name, pangenome_A, pangenome_B)

\* The results before any path is processed.
NoResults ==
    IF graph_level THEN [merges |-> {}, splits |-> {}] ELSE <<>>

PendingFuture == [state |-> "pending", raised |-> "none", value |-> <<>>]

\* A slip: the results are gathered as the workers complete.
futures_collector_AsCompleted(submitted, order) ==
    [k \in 1..Len(submitted) |-> submitted[order[k]]]

\* futures_collector: the results, in the order of argslist.
futures_collector(submitted, order) ==
    [k \in 1..Len(submitted) |-> submitted[k]]

\* A slip: the partial result replaces the accumulated set.
union_Replaces(accumulated, partial) == partial

\* merges.union(ml), splits.union(sl).
union(accumulated, partial) == accumulated \cup partial

\* for ml, sl in editions: the partial results joined in list order.
RECURSIVE JoinPartials(_, _)
JoinPartials(editions, k) ==
    IF k = 0 THEN [merges |-> {}, splits |-> {}]
    ELSE LET joined == JoinPartials(editions, k - 1)
         IN  [merges |-> union(joined.merges, editions[k].value.merges),
              splits |-> union(joined.splits, editions[k].value.splits)]

\* {paths_of_graph[i]: edits for i, edits in enumerate(editions)}.
ByPathName(names, editions) ==
    [p \in ToSet(names) |->
        editions[CHOOSE k \in 1..Len(names) :
                    /\ names[k] = p
                    /\ \A h \in (k + 1)..Len(names) : names[h] # p].value]

\* The call raises: nothing is dumped.
Raise(error, seen) ==
    /\ outputs' = Append(outputs, [error |-> error, written |-> <<>>, computed |-> seen])
    /\ ppc' = "done"

\* The sequential functions: a for loop over the set of paths.
StartLoop(selected_paths) ==
    /\ todo' = selected_paths
    /\ results' = NoResults
    /\ ppc' = IF selected_paths = {} THEN "dump" ELSE "loop"
    /\ UNCHANGED <<paths_of_graph, futures, completed, outputs>>

\* The multiprocessing functions: one worker per path, submitted in the order
\* in which the set is listed.
SubmitAll(selected_paths) ==
    /\ \E listing \in ListingsOf(selected_paths) :
          /\ paths_of_graph' = listing
          /\ futures' = [k \in 1..Len(listing) |-> PendingFuture]
    /\ results' = NoResults
    /\ ppc' = "workers"
    /\ UNCHANGED <<todo, completed, outputs>>

InitPerform ==
    /\ \/ IsOneSharedPath(pangenome_A, pangenome_B)
       \/ IsTwoSharedPaths(pangenome_A, pangenome_B)
    /\ graph_level \in BOOLEAN
    /\ selection \in Selections
    /\ graph_level => ~selection.explicit
    /\ cores = 1
    /\ exchanged = FALSE
    /\ ppc = "start"
    /\ todo = {}
    /\ computed = {}
    /\ results = <<>>
    /\ paths_of_graph = <<>>
    /\ futures = <<>>
    /\ completed = <<>>
    /\ outputs = <<>>
    /\ EditionIdle
    /\ BubblesIdle

\* perform_edition, from its entry to the call of one of the four functions.
Dispatch ==
    /\ ppc = "start"
    /\ IF graph_level
       THEN IF cores > 1 THEN SubmitAll(path_intersect)
            ELSE StartLoop(path_intersect)
       ELSE IF selection.explicit
            THEN IF ~SelectionValid(selection.names, path_intersect)
                 THEN /\ Raise("ValueError", computed)
                      /\ UNCHANGED <<todo, results, paths_of_graph, futures, completed>>
                 ELSE IF cores > 1 THEN SubmitAll(ToSet(selection.names))
                      ELSE StartLoop(ToSet(selection.names))
            ELSE IF cores > 1
                 THEN \* set(selection) with selection = True
                      /\ Raise("TypeError", computed)
                      /\ UNCHANGED <<todo, results, paths_of_graph, futures, completed>>
                 ELSE StartLoop(path_intersect)
    /\ UNCHANGED <<pangenome_A, pangenome_B, graph_level, selection, cores, exchanged,
                   computed>>
    /\ UNCHANGED editVars
    /\ UNCHANGED bubbleVars

\* One turn of the for loop of path_level_edition or graph_level_edition.
LoopTurn ==
    /\ ppc = "loop"
    /\ \E path_name \in todo :
          LET edition == EditionFor(path_name)
          IN  /\ computed' = computed \cup {path_name}
              /\ IF edition.raised # "none"
                 THEN /\ Raise(edition.raised, computed \cup {path_name})
                      /\ UNCHANGED <<todo, results>>
                 ELSE /\ results' =
                            IF graph_level
                            THEN [merges |-> results.merges \cup edition.value.merges,
                                  splits |-> results.splits \cup edition.value.splits]
                            ELSE DictPut(results, path_name, edition.value)
                      /\ todo' = todo \ {path_name}
                      /\ ppc' = IF todo = {path_name} THEN "dump" ELSE "loop"
                      /\ UNCHANGED outputs
    /\ UNCHANGED <<pangenome_A, pangenome_B, graph_level, selection, cores, exchanged,
                   paths_of_graph, futures, completed>>
    /\ UNCHANGED editVars
    /\ UNCHANGED bubbleVars

\* A worker completes: its future holds what the call returned or raised.
WorkerCompletes ==
    /\ ppc = "workers"
    /\ \E k \in DOMAIN futures :
          /\ futures[k].state = "pending"
          /\ LET edition == EditionFor(paths_of_graph[k])
             IN  futures' = [futures EXCEPT ![k] =
                                [state |-> "done", raised |-> edition.raised,
                                 value |-> edition.value]]
          /\ completed' = Append(completed, k)
          /\ computed' = computed \cup {paths_of_graph[k]}
    /\ UNCHANGED <<pangenome_A, pangenome_B, graph_level, selection, cores, exchanged, ppc,
                   todo, results, paths_of_graph, outputs>>
    /\ UNCHANGED editVars
    /\ UNCHANGED bubbleVars

\* Every worker is done: futures_collector returns, and the results are
\* joined (graph level) or stored under the names of the paths (path level).
Collect ==
    /\ ppc = "workers"
    /\ \A k \in DOMAIN futures : futures[k].state = "done"
    /\ LET editions == futures_collector(futures, completed)
       IN  IF \E k \in 1..Len(editions) : editions[k].raised # "none"
           THEN /\ Raise(editions[CHOOSE k \in 1..Len(editions) :
                                     /\ editions[k].raised # "none"
                                     /\ \A h \in 1..(k - 1) : editions[h].raised = "none"].raised,
                         computed)
                /\ UNCHANGED results
           ELSE /\ results' = IF graph_level
                              THEN JoinPartials(editions, Len(editions))
                              ELSE ByPathName(paths_of_graph, editions)
                /\ ppc' = "dump"
                /\ UNCHANGED outputs
    /\ UNCHANGED <<pangenome_A, pangenome_B, graph_level, selection, cores, exchanged,
                   todo, computed, paths_of_graph, futures, completed>>
    /\ UNCHANGED editVars
    /\ UNCHANGED bubbleVars

\* dump(results, open(output_path, 'w')).
Dump ==
    /\ ppc = "dump"
    /\ outputs' = Append(outputs, [error |-> "none", written |-> <<results>>,
                                   computed |-> computed])
    /\ ppc' = "done"
    /\ UNCHANGED <<pangenome_A, pangenome_B, graph_level, selection, cores, exchanged,
                   todo, computed, results, paths_of_graph, futures, completed>>
    /\ UNCHANGED editVars
    /\ UNCHANGED bubbleVars

\* The same call is made again, with cores > 1.
CallWithCores ==
    /\ ppc = "done"
    /\ cores = 1
    /\ cores' = 2
    /\ ppc' = "start"
    /\ todo' = {}
    /\ computed' = {}
    /\ results' = <<>>
    /\ UNCHANGED <<pangenome_A, pangenome_B, graph_level, selection, exchanged,
                   paths_of_graph, futures, completed, outputs>>
    /\ UNCHANGED editVars
    /\ UNCHANGED bubbleVars

\* "The two graphs can be freely swapped": the graph-level call is made again
\* with the two graphs in the other order.
CallExchanged ==
    /\ ppc = "done"
    /\ cores > 1
    /\ graph_level
    /\ ~exchanged
    /\ exchanged' = TRUE
    /\ pangenome_A' = pangenome_B
    /\ pangenome_B' = pangenome_A
    /\ cores' = 1
    /\ ppc' = "start"
    /\ todo' = {}
    /\ computed' = {}
    /\ results' = <<>>
    /\ UNCHANGED <<graph_level, selection, paths_of_graph, futures, completed, outputs>>
    /\ UNCHANGED editVars
    /\ UNCHANGED bubbleVars

NextPerform ==
    \/ Dispatch
    \/ LoopTurn
    \/ WorkerCompletes
    \/ Collect
    \/ Dump
    \/ CallWithCores
    \/ CallExchanged

SpecPerform == InitPerform /\ [][NextPerform]_vars

(***************************************************************************)
(* Vocabulary of the properties of perform_edition.                        *)
(***************************************************************************)
\* The call with cores = 1 and the call with cores > 1 have both ended.
BothCallsEnded == Len(outputs) = 2

\* The call with cores > 1 is past futures_collector, at path level.
ParallelPathLevelReturned ==
    /\ ~graph_level
    /\ cores > 1
    /\ ppc = "dump"

\* The events of every shared path, joined.
CanonicalEvents ==
    [merges |-> UNION {edit_single_path_graph_level(p, pangenome_A, pangenome_B).value.merges :
                          p \in path_intersect},
     splits |-> UNION {edit_single_path_graph_level(p, pangenome_A, pangenome_B).value.splits :
                          p \in path_intersect}]

\* The log of the co-traversal of a path.
LogOf(path_name) == TraversalOf(pangenome_A, pangenome_B, path_name).log

\* The event holds an entry for the path whose positions include the position.
HoldsPosition(event, path_name, position) ==
    \E pair \in event : pair[1] = path_name /\ position \in pair[2]

(***************************************************************************)
(* C13.  Execution mode, as claimed: for the same graphs and the same      *)
(* graph_level and selection arguments, the call with cores > 1 ends as    *)
(* the call with cores = 1 does: the same error or the same written        *)
(* result, in graph-level mode, with an explicit selection and with the    *)
(* default selection.                                                      *)
(***************************************************************************)
C13_SameResult ==
    BothCallsEnded =>
        /\ outputs[1].error = outputs[2].error
        /\ outputs[1].written = outputs[2].written

(***************************************************************************)
(* C14.  Selection validation: at path level with an explicit list of      *)
(* names, a list that is not within the shared paths makes the call raise  *)
(* ValueError with no co-traversal run and nothing written; a list within  *)
(* the shared paths makes the call write the edition of exactly the        *)
(* selected paths.                                                         *)
(***************************************************************************)
C14_SelectionValidated ==
    (~graph_level /\ selection.explicit) =>
        \A r \in 1..Len(outputs) :
            IF ToSet(selection.names) \subseteq path_intersect
            THEN /\ outputs[r].error = "none"
                 /\ Len(outputs[r].written) = 1
                 /\ DOMAIN outputs[r].written[1] = ToSet(selection.names)
                 /\ outputs[r].computed = ToSet(selection.names)
                 /\ \A p \in ToSet(selection.names) :
                        outputs[r].written[1][p] =
                            edit_single_path_path_level(p, pangenome_A, pangenome_B).value
            ELSE /\ outputs[r].error = "ValueError"
                 /\ outputs[r].written = <<>>
                 /\ outputs[r].computed = {}

\* Both calls ended on a list that names, after a shared path, a path that
\* only graph A holds.
C14_Witness ==
    /\ BothCallsEnded
    /\ ~graph_level
    /\ selection.explicit
    /\ selection.names = <<"x", "z">>
    /\ "z" \in DOMAIN pangenome_A
    /\ outputs[2].error = "ValueError"

(***************************************************************************)
(* C15.  Order-independent deduplication: at graph level, whatever the     *)
(* order in which the sequential loop takes the shared paths, the order in *)
(* which the workers are submitted and the order in which they complete,   *)
(* the written merges and splits are the same sets: the events of every    *)
(* shared path, each event held once.                                      *)
(***************************************************************************)
C15_OrderIndependent ==
    (graph_level /\ ~exchanged) =>
        \A r \in 1..Len(outputs) :
            /\ outputs[r].error = "none"
            /\ outputs[r].written = <<CanonicalEvents>>

\* Both calls ended at graph level on two shared paths that report the same
\* split, the worker submitted second having completed first.
C15_Witness ==
    /\ BothCallsEnded
    /\ graph_level
    /\ completed = <<2, 1>>
    /\ LET of_x == edit_single_path_graph_level("x", pangenome_A, pangenome_B).value
           of_y == edit_single_path_graph_level("y", pangenome_A, pangenome_B).value
       IN  (of_x.splits \cap of_y.splits) # {}

(***************************************************************************)
(* C16.  Origin of a canonical event, as claimed: at graph level, the      *)
(* event added for a split or a merge that the co-traversal of a path      *)
(* records at a global position holds an entry for that path whose         *)
(* positions include that global position.  Stated for the paths that have *)
(* the same total length in both graphs.                                   *)
(***************************************************************************)
SameTotalLength(path_name) ==
    TotalLength(SegmentLengths(pangenome_A[path_name])) =
        TotalLength(SegmentLengths(pangenome_B[path_name]))

C16_EventOrigin ==
    graph_level =>
        \A p \in computed :
            SameTotalLength(p) =>
                \A k \in 1..Len(LogOf(p)) :
                    HoldsPosition(EventOf(pangenome_B, LogOf(p)[k]), p,
                                  LogOf(p)[k].global_pos)

AllPositive == PositiveLengths(gfa_A) /\ PositiveLengths(gfa_B)

\* The loop of the current call has not been left.
InCall == pc = "loop"

Max2(a, b) == IF a >= b THEN a ELSE b

(***************************************************************************)
(* C21.  Simultaneous termination: for two segmentations of equal total    *)
(* length whose segments all have length >= 1, the loop terminates (the    *)
(* cursors never pass the end of their segmentation and every iteration    *)
(* advances at least one of them) and, once it is left, i is the number of *)
(* segments of A and j the number of segments of B.                        *)
(***************************************************************************)
C21_SimultaneousEnd ==
    /\ []((Comparable /\ AllPositive) =>
            /\ i <= Len(graph_A)
            /\ j <= Len(graph_B)
            /\ pc # "raised"
            /\ (pc = "returned") => (i = Len(graph_A) /\ j = Len(graph_B)))
    /\ [][(Comparable /\ AllPositive /\ InCall /\ InLoop) => i' + j' > i + j]_vars

\* A call on comparable segmentations of several segments, cut at different
\* places, has returned.
C21_Witness ==
    /\ pc = "returned"
    /\ Comparable
    /\ AllPositive
    /\ Len(gfa_A) >= 2
    /\ Len(gfa_B) >= 2
    /\ gfa_A # gfa_B

(***************************************************************************)
(* C22.  Strict progress: when every segment has length >= 1, every        *)
(* iteration of the loop strictly increases global_pos, and at the start   *)
(* of every iteration global_pos is the larger of pos_A and pos_B.         *)
(***************************************************************************)
C22_StrictProgress ==
    /\ []((AllPositive /\ InCall) => global_pos = Max2(pos_A, pos_B))
    /\ [][(AllPositive /\ InCall /\ InLoop) => global_pos' > global_pos]_vars

\* An iteration starts with the two cursors at different positions.
C22_Witness ==
    /\ InCall
    /\ InLoop
    /\ AllPositive
    /\ pos_A # pos_B
    /\ global_pos > 0

(***************************************************************************)
(* C24.  The (False, False) branch is unreachable: whatever the two        *)
(* segmentations, of different total lengths and with segments of length 0 *)
(* included, no iteration raises ValueError.                               *)
(***************************************************************************)
C24_NeverRaises == pc # "raised"

\* A call has returned on segmentations of different total lengths, one of
\* them with a segment of length 0.
C24_Witness ==
    /\ pc = "returned"
    /\ ~Comparable
    /\ ~AllPositive
    /\ global_pos > 0

(***************************************************************************)
(* C25.  Exactness: for two segmentations of equal total length whose      *)
(* segments all have length >= 1, the returned splits and merges are       *)
(* disjoint and together are exactly the interior boundaries that one      *)
(* segmentation has and the other lacks.                                   *)
(***************************************************************************)
SymmetricDifference(S, T) == (S \ T) \cup (T \ S)

C25_SymmetricDifference ==
    (ReturnedAB /\ Comparable /\ AllPositive) =>
        /\ ToSet(EditionAB.splits) \cap ToSet(EditionAB.merges) = {}
        /\ ToSet(EditionAB.splits) \cup ToSet(EditionAB.merges) =
               SymmetricDifference(InteriorBoundaries(gfa_A), InteriorBoundaries(gfa_B))

\* The call returned a split and a merge on segmentations that also share an
\* interior boundary.
C25_Witness ==
    /\ ReturnedAB
    /\ Comparable
    /\ AllPositive
    /\ EditionAB.splits # <<>>
    /\ EditionAB.merges # <<>>
    /\ (InteriorBoundaries(gfa_A) \cap InteriorBoundaries(gfa_B)) # {}

(***************************************************************************)
(* C23.  Reciprocity at graph level, as claimed: swapping the two graphs   *)
(* swaps the collections.  The splits written for (A, B) are the merges    *)
(* written for (B, A), and the merges written for (A, B) are the splits    *)
(* written for (B, A).  Stated for graphs whose shared paths have the same *)
(* total length in both.                                                   *)
(***************************************************************************)
\* The sequential call on the graphs in the other order has ended too.
ExchangedCallEnded == exchanged /\ Len(outputs) >= 3

C23_Reciprocity ==
    (ExchangedCallEnded /\ \A p \in path_intersect : SameTotalLength(p)) =>
        /\ outputs[1].error = "none"
        /\ outputs[3].error = "none"
        /\ outputs[1].written[1].splits = outputs[3].written[1].merges
        /\ outputs[1].written[1].merges = outputs[3].written[1].splits

====
